---------------------------- MODULE Spec2Model ----------------------------
(***************************************************************************)
(* Model of opentmi_client/transport/transport.py: class Transport, a      *)
(* synchronous wrapper over the `requests` HTTP client.                    *)
(*                                                                         *)
(* Python values are records tagged with their Python type:                *)
(*   None            [type |-> "NoneType"]                                 *)
(*   str             [type |-> "str",  val |-> s]                          *)
(*   int             [type |-> "int",  n |-> i]                            *)
(*   bool            [type |-> "bool", b |-> TRUE/FALSE]                   *)
(*   dict of headers [type |-> "dict", items |-> set of <<key, value>>]    *)
(*   parsed JSON     [type |-> "json", py |-> Python type, repr |-> text]  *)
(*   exceptions      [type |-> class name, val |-> text of the error]      *)
(*   TransportException                                                    *)
(*                   [type |-> "TransportException", message, code]        *)
(***************************************************************************)
EXTENDS Integers, FiniteSets, Sequences, TLC

VARIABLES
    host,       \* Transport.__host
    token,      \* Transport.__token
    op,         \* name of the operation that ran last
    args,       \* the arguments of that operation
    request,    \* what that operation passed to the HTTP client
    response,   \* what the HTTP client answered (a response or a raised error)
    result,     \* how that operation ended: a returned value or a raised exception
    token_set   \* TRUE once set_token has been called (history, not program state)

vars == <<host, token, op, args, request, response, result, token_set>>

---------------------------------------------------------------------------
(* Bounds and input sets *)

\* HTTP status classes 1xx .. MaxClass xx are enumerated
MaxClass == 5

StatusCodes == {100 * k + d : k \in 1..MaxClass, d \in {0, 4, 99}}

Bodies == {"{\"a\":1}", "null", "server error", ""}

Hosts == {"localhost", "example.com"}

Ports == {3000, 8080}

---------------------------------------------------------------------------
(* Python values *)

None == [type |-> "NoneType"]

PyStr(s) == [type |-> "str", val |-> s]

PyInt(i) == [type |-> "int", n |-> i]

PyBool(v) == [type |-> "bool", b |-> v]

PyDict(items) == [type |-> "dict", items |-> items]

PyJson(py, repr) == [type |-> "json", py |-> py, repr |-> repr]

PyExc(cls, text) == [type |-> cls, val |-> text]

\* the Transport instance itself (there is one)
Self == [type |-> "Transport"]

Tokens == {None, PyStr(""), PyStr("abc"), PyStr("xyz")}

\* truth value of a token in `if self.__token:`
Truthy(v) == v.type = "str" /\ v.val # ""

---------------------------------------------------------------------------
(* Module constants and class attributes *)

REQUEST_TIMEOUT == 30

NOT_FOUND == 404

__request_timeout == 10

---------------------------------------------------------------------------
(* Exceptions *)

\* TransportException of opentmi_client.utils derives from Exception only
TransportExceptionAncestors == {"TransportException", "OpentmiException", "Exception"}

\* the classes each exception class derives from (itself included)
Ancestors(cls) ==
    CASE cls = "ConnectTimeout"  -> {"ConnectTimeout", "RequestException", "IOError", "Exception"}
      [] cls = "ConnectionError" -> {"ConnectionError", "RequestException", "IOError", "Exception"}
      [] cls = "RequestException" -> {"RequestException", "IOError", "Exception"}
      [] cls = "requests.JSONDecodeError" ->
             {"requests.JSONDecodeError", "RequestException", "IOError",
              "json.JSONDecodeError", "ValueError", "Exception"}
      [] cls = "json.JSONDecodeError" -> {"json.JSONDecodeError", "ValueError", "Exception"}
      [] cls = "ValueError" -> {"ValueError", "Exception"}
      [] cls = "TypeError" -> {"TypeError", "Exception"}
      [] cls = "KeyError" -> {"KeyError", "LookupError", "Exception"}
      [] cls = "TransportException" -> TransportExceptionAncestors
      [] OTHER -> {cls, "Exception"}

\* `except (A, B) as error` matches error
IsInstance(error, classes) == Ancestors(error.type) \cap classes # {}

\* TransportException(message, code=None)
TransportException(message, code) ==
    [type |-> "TransportException", message |-> message, code |-> code]

\* str(x) of a str or of a builtin exception built from one argument
str_arg(x) == IF x.type = "str" THEN x ELSE PyStr(x.val)

\* str(e) of a TransportException: Exception.__str__ over its one argument
TransportException__str__(e) == str_arg(e.message)

\* str(x)
str(x) ==
    IF x.type = "TransportException" THEN TransportException__str__(x)
    ELSE str_arg(x)

Return(v) == [kind |-> "return", value |-> v]

Raise(e) == [kind |-> "raise", exc |-> e]

\* the try block ran to its end without return or raise
FallThrough == [kind |-> "fallthrough"]

---------------------------------------------------------------------------
(* The HTTP client and the JSON parser (collaborators) *)

Response(s, b) == [kind |-> "response", status_code |-> s, text |-> b]

ClientError(e) == [kind |-> "error", exc |-> e]

NoResponse == [kind |-> "none"]

NoRequest == [verb |-> "none"]

\* what requests.get / post / put can produce
ClientOutcomes ==
    {Response(s, b) : s \in StatusCodes, b \in Bodies}
    \cup {ClientError(PyExc("ConnectTimeout", "timed out")),
          ClientError(PyExc("ConnectionError", "connection refused"))}

\* classes a failing response.json() raises, by version of requests
ResponseJsonErrors == {"json.JSONDecodeError", "requests.JSONDecodeError"}

\* json.loads(text): the parsed value, or the error it raises
json_loads(text, cls) ==
    CASE text = "{\"a\":1}" -> Return(PyJson("dict", "{'a': 1}"))
      [] text = "null" -> Return(None)
      [] OTHER -> Raise(PyExc(cls, "Expecting value: line 1 column 1 (char 0)"))

\* resolve_host(host, port) of opentmi_client.utils: the base URL
resolve_host(h, p) == [type |-> "url", host |-> h, port |-> p]

---------------------------------------------------------------------------
(* Transport *)

\* property Transport.__headers: the dict is built but never returned
__headers(tok) ==
    LET base == {<<"content-type", "application/json">>, <<"Connection", "close">>}
        headers == IF Truthy(tok)
                   THEN PyDict(base \cup {<<"Authorization", "Bearer " \o tok.val>>})
                   ELSE PyDict(base)
    IN  None

\* is_success with the upper limit included
is_success_mut(resp) ==
    LET code == resp.status_code
    IN  300 >= code /\ code >= 200

\* Transport.is_success(response)
is_success(resp) ==
    LET code == resp.status_code
    IN  300 > code /\ code >= 200

\* get_json: the call to requests.get
get_json_request(tok) ==
    [verb |-> "GET", headers |-> __headers(tok), timeout |-> REQUEST_TIMEOUT]

\* get_json without the NOT_FOUND branch
get_json_try_mut(out, cls) ==
    IF out.kind = "error" THEN Raise(out.exc)
    ELSE IF is_success(out) THEN json_loads(out.text, cls)
    ELSE Raise(TransportException(PyStr(out.text), PyInt(out.status_code)))

\* get_json: the body of the try block, given what requests.get produced
get_json_try(out, cls) ==
    IF out.kind = "error" THEN Raise(out.exc)
    ELSE IF is_success(out) THEN json_loads(out.text, cls)
    ELSE IF out.status_code = NOT_FOUND THEN FallThrough
    ELSE Raise(TransportException(PyStr(out.text), PyInt(out.status_code)))

\* get_json without the `except RequestException` clause
get_json_mut(out, cls) ==
    LET r == get_json_try(out, cls)
    IN  IF r.kind = "raise" /\ IsInstance(r.exc, {"ValueError", "TypeError"})
        THEN Raise(TransportException(str(r.exc), None))
        ELSE IF r.kind = "fallthrough" THEN Return(None)
        ELSE r

\* get_json: the except clauses and the trailing `return None`
get_json(out, cls) ==
    LET r == get_json_try(out, cls)
    IN  IF r.kind = "raise" /\ IsInstance(r.exc, {"RequestException"})
        THEN Raise(TransportException(str(r.exc), None))
        ELSE IF r.kind = "raise" /\ IsInstance(r.exc, {"ValueError", "TypeError"})
        THEN Raise(TransportException(str(r.exc), None))
        ELSE IF r.kind = "fallthrough" THEN Return(None)
        ELSE r

\* post_json: the call to requests.post
post_json_request(tok) ==
    [verb |-> "POST", headers |-> __headers(tok), timeout |-> REQUEST_TIMEOUT]

\* post_json raising without the status code
post_json_try_mut(out) ==
    IF out.kind = "error" THEN Raise(out.exc)
    ELSE IF is_success(out) THEN json_loads(out.text, "json.JSONDecodeError")
    ELSE Raise(TransportException(PyStr(out.text), None))

\* post_json: the body of the try block
post_json_try(out) ==
    IF out.kind = "error" THEN Raise(out.exc)
    ELSE IF is_success(out) THEN json_loads(out.text, "json.JSONDecodeError")
    ELSE Raise(TransportException(PyStr(out.text), PyInt(out.status_code)))

\* post_json without the `except (ValueError, TypeError, KeyError)` clause
post_json_mut(out) ==
    LET r == post_json_try(out)
    IN  IF r.kind = "raise" /\ IsInstance(r.exc, {"RequestException"})
        THEN Raise(TransportException(str(r.exc), None))
        ELSE r

\* post_json: the except clauses
post_json(out) ==
    LET r == post_json_try(out)
    IN  IF r.kind = "raise" /\ IsInstance(r.exc, {"RequestException"})
        THEN Raise(TransportException(str(r.exc), None))
        ELSE IF r.kind = "raise" /\ IsInstance(r.exc, {"ValueError", "TypeError", "KeyError"})
        THEN Raise(TransportException(r.exc, None))
        ELSE r

\* put_json passing the class attribute as timeout
put_json_request_mut(tok) ==
    [verb |-> "PUT", headers |-> __headers(tok), timeout |-> __request_timeout]

\* put_json: the call to requests.put
put_json_request(tok) ==
    [verb |-> "PUT", headers |-> __headers(tok), timeout |-> REQUEST_TIMEOUT]

\* put_json: the body of the try block
put_json_try(out) ==
    IF out.kind = "error" THEN Raise(out.exc)
    ELSE IF is_success(out) THEN json_loads(out.text, "json.JSONDecodeError")
    ELSE Raise(TransportException(PyStr(out.text), PyInt(out.status_code)))

\* put_json: the except clauses; the last one catches every Exception,
\* the TransportException raised in the try block included
put_json(out) ==
    LET r == put_json_try(out)
    IN  IF r.kind = "raise" /\ IsInstance(r.exc, {"RequestException"})
        THEN Raise(TransportException(str(r.exc), None))
        ELSE IF r.kind = "raise" /\ IsInstance(r.exc, {"ValueError", "TypeError"})
        THEN Raise(TransportException(r.exc, None))
        ELSE IF r.kind = "raise" /\ IsInstance(r.exc, {"Exception"})
        THEN Raise(TransportException(str(r.exc), None))
        ELSE r

---------------------------------------------------------------------------
(* State machine *)

\* Transport(host, port): token None, host resolved
Init ==
    /\ \E h \in Hosts, p \in Ports :
          /\ host = resolve_host(h, p)
          /\ args = [host |-> h, port |-> p]
    /\ token = None
    /\ op = "__init__"
    /\ request = NoRequest
    /\ response = NoResponse
    /\ result = Return(Self)
    /\ token_set = FALSE

\* set_host that resets the token as the constructor does
set_host_mut(h, p) ==
    /\ host' = resolve_host(h, p)
    /\ token' = None
    /\ op' = "set_host"
    /\ args' = [host |-> h, port |-> p]
    /\ request' = NoRequest
    /\ response' = NoResponse
    /\ result' = Return(None)
    /\ UNCHANGED token_set

set_host(h, p) ==
    /\ host' = resolve_host(h, p)
    /\ op' = "set_host"
    /\ args' = [host |-> h, port |-> p]
    /\ request' = NoRequest
    /\ response' = NoResponse
    /\ result' = Return(None)
    /\ UNCHANGED <<token, token_set>>

set_token(t) ==
    /\ token' = t
    /\ op' = "set_token"
    /\ args' = [token |-> t]
    /\ request' = NoRequest
    /\ response' = NoResponse
    /\ result' = Return(Self)
    /\ token_set' = TRUE
    /\ UNCHANGED host

GetJson(out, cls) ==
    /\ op' = "get_json"
    /\ args' = [verb |-> "GET"]
    /\ request' = get_json_request(token)
    /\ response' = out
    /\ result' = get_json(out, cls)
    /\ UNCHANGED <<host, token, token_set>>

PostJson(out) ==
    /\ op' = "post_json"
    /\ args' = [verb |-> "POST"]
    /\ request' = post_json_request(token)
    /\ response' = out
    /\ result' = post_json(out)
    /\ UNCHANGED <<host, token, token_set>>

PutJson(out) ==
    /\ op' = "put_json"
    /\ args' = [verb |-> "PUT"]
    /\ request' = put_json_request(token)
    /\ response' = out
    /\ result' = put_json(out)
    /\ UNCHANGED <<host, token, token_set>>

IsSuccess(s, b) ==
    /\ op' = "is_success"
    /\ args' = [response |-> Response(s, b)]
    /\ request' = NoRequest
    /\ response' = Response(s, b)
    /\ result' = Return(PyBool(is_success(Response(s, b))))
    /\ UNCHANGED <<host, token, token_set>>

Next ==
    \/ \E h \in Hosts, p \in Ports : set_host(h, p)
    \/ \E t \in Tokens : set_token(t)
    \/ \E out \in ClientOutcomes, cls \in ResponseJsonErrors : GetJson(out, cls)
    \/ \E out \in ClientOutcomes : PostJson(out)
    \/ \E out \in ClientOutcomes : PutJson(out)
    \/ \E s \in StatusCodes, b \in Bodies : IsSuccess(s, b)

Spec == Init /\ [][Next]_vars

Verbs == {"get_json", "post_json", "put_json"}

---------------------------------------------------------------------------
(* Properties *)

\* the headers object h has the entry k: v
HasHeader(h, k, v) == h.type = "dict" /\ <<k, v>> \in h.items

\* the headers object h has an entry under the key k
HasKey(h, k) == h.type = "dict" /\ \E e \in h.items : e[1] = k

\* the last operation was a verb and the HTTP client answered with a response
Answered(verb) == op = verb /\ response.kind = "response"

\* the status of the last response lies outside [200, 300)
Non2xx == ~(200 <= response.status_code /\ response.status_code < 300)

\* the last operation raised TransportException(message, code)
RaisedTransport(message, code) ==
    result = Raise(TransportException(message, code))

\* C1: the headers a verb passes to the HTTP client contain
\* content-type: application/json and Connection: close, and contain an
\* Authorization entry iff a non-empty token is set.
C1_HeadersInvariant ==
    op \in Verbs =>
        /\ HasHeader(request.headers, "content-type", "application/json")
        /\ HasHeader(request.headers, "Connection", "close")
        /\ HasKey(request.headers, "Authorization") <=> Truthy(token)

\* C2: after set_token(t) with a non-empty t, a verb's request carries
\* Authorization: Bearer t for the t of the latest set_token call; a request
\* issued before any set_token call carries no Authorization header.
C2_BearerAfterSetToken ==
    op \in Verbs =>
        /\ (token_set /\ Truthy(token)) =>
               HasHeader(request.headers, "Authorization", "Bearer " \o token.val)
        /\ ~token_set => ~HasKey(request.headers, "Authorization")

\* C3: for every non-2xx response with status s and body b, put_json raises
\* TransportException with message b and code s, exactly as post_json does.
C3_PutSameErrorContract ==
    (Answered("put_json") /\ Non2xx) =>
        /\ RaisedTransport(PyStr(response.text), PyInt(response.status_code))
        /\ result = post_json(response)

\* C4: for every non-2xx status s, get_json raises TransportException(body, s)
\* when s is not 404, and post_json raises TransportException(body, s) for
\* every such s, 404 included.
C4_Non2xxRaises ==
    /\ (Answered("get_json") /\ Non2xx /\ response.status_code # 404) =>
           RaisedTransport(PyStr(response.text), PyInt(response.status_code))
    /\ (Answered("post_json") /\ Non2xx) =>
           RaisedTransport(PyStr(response.text), PyInt(response.status_code))

C4_Witness ==
    /\ Answered("post_json")
    /\ response.status_code = 404
    /\ response.text = "server error"
    /\ RaisedTransport(PyStr("server error"), PyInt(404))

\* C5: get_json on a 404 response returns None whatever the body, and 404 is
\* the only non-2xx status on which get_json returns instead of raising.
C5_GetNotFoundReturnsNone ==
    /\ (Answered("get_json") /\ response.status_code = 404) => result = Return(None)
    /\ (Answered("get_json") /\ Non2xx /\ result.kind # "raise") =>
           response.status_code = 404

C5_Witness ==
    /\ Answered("get_json")
    /\ response.status_code = 404
    /\ response.text = "server error"
    /\ result = Return(None)

\* C6: when the HTTP client raises a RequestException, each verb raises a
\* TransportException whose message is the text of that error and whose code
\* is None; nothing is returned and nothing else is raised.
C6_ConnectionErrorRaises ==
    (op \in Verbs /\ response.kind = "error") =>
        RaisedTransport(PyStr(response.exc.val), None)

C6_Witness ==
    /\ op = "get_json"
    /\ response = ClientError(PyExc("ConnectTimeout", "timed out"))
    /\ RaisedTransport(PyStr("timed out"), None)

\* C7: on a 2xx response each verb returns the parsed body when the body is
\* valid JSON, and otherwise raises a TransportException that carries the
\* parse error message and no status code.
C7_SuccessParsesBody ==
    \A verb \in Verbs :
        (Answered(verb) /\ ~Non2xx) =>
            IF response.text = "{\"a\":1}" THEN result = Return(PyJson("dict", "{'a': 1}"))
            ELSE IF response.text = "null" THEN result = Return(None)
            ELSE /\ result.kind = "raise"
                 /\ result.exc.type = "TransportException"
                 /\ result.exc.code = None
                 /\ str(result.exc) = PyStr("Expecting value: line 1 column 1 (char 0)")

C7_Witness ==
    /\ Answered("post_json")
    /\ response.status_code = 204
    /\ response.text = ""
    /\ result.kind = "raise"
    /\ result.exc.type = "TransportException"
    /\ result.exc.code = None

\* C8: is_success returns true iff 200 <= status_code < 300 and changes
\* nothing of the Transport.
C8_IsSuccessRange ==
    [][op' = "is_success" =>
          /\ result' = Return(PyBool(200 <= response'.status_code
                                     /\ response'.status_code < 300))
          /\ UNCHANGED <<host, token>>]_vars

C8_Witness ==
    /\ op = "is_success"
    /\ response.status_code = 299
    /\ result = Return(PyBool(TRUE))

\* C9: set_host(h, p) sets host to resolve_host(h, p) and leaves token;
\* set_token(t) sets token to t, leaves host and returns the instance; the
\* verbs leave host and token, whether they return or raise.
C9_Frame ==
    [][/\ op' = "set_host" =>
              /\ host' = resolve_host(args'.host, args'.port)
              /\ token' = token
       /\ op' = "set_token" =>
              /\ token' = args'.token
              /\ host' = host
              /\ result' = Return(Self)
       /\ op' \in Verbs => (host' = host /\ token' = token)]_vars

C9_Witness ==
    /\ op = "set_host"
    /\ token = PyStr("abc")
    /\ host = resolve_host("example.com", 8080)

\* C10: every verb passes the timeout 30 to the HTTP client, whatever the
\* state, and not the class attribute __request_timeout.
C10_FixedTimeout ==
    op \in Verbs => (request.timeout = 30 /\ request.timeout # __request_timeout)

C10_Witness ==
    /\ op = "put_json"
    /\ token = PyStr("xyz")
    /\ request.timeout = 30

====
